---- MODULE Spec2Model ----
(***************************************************************************)
(* Plan compilation of declarative-dataflow: Plan::dependencies and        *)
(* Plan::implement (src/src/plan/mod.rs), PullLevel, Pull and interleave   *)
(* (src/src/plan/pull.rs).                                                 *)
(*                                                                         *)
(* A plan is compiled once (implement) against an environment of named     *)
(* relations; the compiled dataflow then receives updates (tuple, diff) on *)
(* the arrangements it imported.  A panic during implement leaves pc =     *)
(* "failed"; a panic inside an operator closure while a tuple is processed *)
(* leaves pc = "crashed".                                                  *)
(***************************************************************************)
EXTENDS Integers, Sequences, FiniteSets

VARIABLES
    plan,                \* the root Plan handed to implement()
    local_arrangements,  \* keys of the VariableMap passed to implement()
    global_arrangements, \* names for which context.global_arrangement is Some
    forward_indices,     \* names for which context.forward_index is Some
    pc,                  \* "start" | "compiled" | "failed" | "crashed"
    symbols,             \* symbols of the relation implement() returned
    lookups,             \* the name lookups implement() performed, in order
    inputs,              \* imported source -> accumulated collection
    tuples,              \* accumulated tuples of the relation implement() returned
    delivered,           \* number of updates delivered so far
    iv_values,           \* interleave: argument values
    iv_constants,        \* interleave: argument constants
    iv_result            \* interleave: outcome of the call

vars == <<plan, local_arrangements, global_arrangements, forward_indices, pc,
          symbols, lookups, inputs, tuples, delivered,
          iv_values, iv_constants, iv_result>>

----------------------------------------------------------------------------
\* Bounds

MaxDeliveries == 3
MaxPaths == 2
MaxValues == 3
MaxConstants == 3

----------------------------------------------------------------------------
\* Values, tuples, collections

Eid(e) == <<"Eid", e>>
Aid(a) == <<"Aid", a>>
Number(n) == <<"Number", n>>

\* Attribute names (Aid).  "a" also names a local relation and a published
\* relation, so that the same name can be present in one registry and absent
\* from another.
Attributes == {"a", "b"}
LocalNames == {"a"}
GlobalNames == {"a"}
ValueDomain == {Eid(1), Number(1)}

RECURSIVE SeqsUpTo(_, _)
SeqsUpTo(S, n) ==
    IF n = 0 THEN {<<>>}
    ELSE LET shorter == SeqsUpTo(S, n - 1)
         IN  shorter \cup {Append(s, x) : s \in {t \in shorter : Len(t) = n - 1}, x \in S}

\* Tuples an arrangement can hold: of no, one, two and three columns.
TupleUniverse ==
    {<<>>} \cup {<<v>> : v \in ValueDomain} \cup (ValueDomain \X ValueDomain)
    \cup {<<Eid(1), Number(1), Number(1)>>}
\* Entries <<e, v>> of a forward index.
IndexUniverse == {<<Eid(1), Number(1)>>, <<Eid(1), Eid(1)>>, <<Number(1), Number(1)>>}
Diffs == {1, -1}

\* A collection is a function from its support to non-zero multiplicities.
EmptyCollection == [t \in {} |-> 0]

Mult(c, t) == IF t \in DOMAIN c THEN c[t] ELSE 0

Consolidate(m) == [t \in {u \in DOMAIN m : m[u] # 0} |-> m[t]]

Concat(c, d) ==
    Consolidate([t \in DOMAIN c \cup DOMAIN d |-> Mult(c, t) + Mult(d, t)])

Update(c, t, diff) ==
    Consolidate([u \in DOMAIN c \cup {t} |-> Mult(c, u) + (IF u = t THEN diff ELSE 0)])

Negated(c) == [t \in DOMAIN c |-> 0 - c[t]]

RECURSIVE SumMult(_, _)
SumMult(c, S) ==
    IF S = {} THEN 0
    ELSE LET t == CHOOSE u \in S : TRUE
         IN  c[t] + SumMult(c, S \ {t})

\* collection.map(f): every tuple t goes to f[t] with its multiplicity.
MapCollection(c, f) ==
    LET image == {f[t] : t \in DOMAIN c}
    IN  Consolidate([r \in image |-> SumMult(c, {t \in DOMAIN c : f[t] = r})])

\* collection.filter(p), kept being the tuples p holds of
FilterCollection(c, kept) == [t \in DOMAIN c \cap kept |-> c[t]]

----------------------------------------------------------------------------
\* interleave (pull.rs).  ok = FALSE is the panic of an index out of range.

\* Mutant: an index past the end is skipped instead of panicking.
RECURSIVE InterleaveLoopSkipping(_, _, _, _, _, _)
InterleaveLoopSkipping(values, constants, i, next_value, next_const, result) ==
    IF i >= Len(values) + Len(constants) THEN [ok |-> TRUE, result |-> result]
    ELSE IF i % 2 = 0
         THEN IF next_value >= Len(values)
              THEN InterleaveLoopSkipping(values, constants, i + 1, next_value, next_const,
                                          result)
              ELSE InterleaveLoopSkipping(values, constants, i + 1, next_value + 1,
                                          next_const, Append(result, values[next_value + 1]))
         ELSE IF next_const >= Len(constants)
              THEN InterleaveLoopSkipping(values, constants, i + 1, next_value, next_const,
                                          result)
              ELSE InterleaveLoopSkipping(values, constants, i + 1, next_value,
                                          next_const + 1,
                                          Append(result, Aid(constants[next_const + 1])))

RECURSIVE InterleaveLoop(_, _, _, _, _, _)
InterleaveLoop(values, constants, i, next_value, next_const, result) ==
    IF i >= Len(values) + Len(constants) THEN [ok |-> TRUE, result |-> result]
    ELSE IF i % 2 = 0
         THEN IF next_value >= Len(values)
              THEN [ok |-> FALSE, result |-> result]
              ELSE InterleaveLoop(values, constants, i + 1, next_value + 1, next_const,
                                  Append(result, values[next_value + 1]))
         ELSE IF next_const >= Len(constants)
              THEN [ok |-> FALSE, result |-> result]
              ELSE InterleaveLoop(values, constants, i + 1, next_value, next_const + 1,
                                  Append(result, Aid(constants[next_const + 1])))

\* Mutant: only an empty values is passed through.
interleaveUnlessNoValues(values, constants) ==
    IF values = <<>>
    THEN [ok |-> TRUE, result |-> values]
    ELSE InterleaveLoop(values, constants, 0, 0, 0, <<>>)

interleave(values, constants) ==
    IF values = <<>> \/ constants = <<>>
    THEN [ok |-> TRUE, result |-> values]
    ELSE InterleaveLoop(values, constants, 0, 0, 0, <<>>)

----------------------------------------------------------------------------
\* Plans

MatchA(sym1, a, sym2) == [kind |-> "MatchA", sym1 |-> sym1, a |-> a, sym2 |-> sym2]
MatchEA(e, a, sym1) == [kind |-> "MatchEA", e |-> e, a |-> a, sym1 |-> sym1]
MatchAV(sym1, a, v) == [kind |-> "MatchAV", sym1 |-> sym1, a |-> a, v |-> v]
RuleExpr(syms, name) == [kind |-> "RuleExpr", syms |-> syms, name |-> name]
NameExpr(syms, name) == [kind |-> "NameExpr", syms |-> syms, name |-> name]
Negate(p) == [kind |-> "Negate", plan |-> p]
PullLevel(p, pull_attributes, path_attributes) ==
    [kind |-> "PullLevel", plan |-> p, pull_attributes |-> pull_attributes,
     path_attributes |-> path_attributes]
Pull(paths) == [kind |-> "Pull", paths |-> paths]

SymLists == {<<"x">>, <<"x", "y">>}

LeafPlans ==
    {MatchA("x", a, "y") : a \in GlobalNames}
    \cup {MatchEA(1, a, "y") : a \in GlobalNames}
    \cup {MatchAV("x", a, Number(1)) : a \in GlobalNames}
    \cup {RuleExpr(s, n) : s \in SymLists, n \in LocalNames}
    \cup {NameExpr(s, n) : s \in SymLists, n \in GlobalNames}

NegatePlans == {Negate(p) : p \in LeafPlans}

PullInputs ==
    {RuleExpr(<<"x">>, "a"), Negate(RuleExpr(<<"x">>, "a"))}
PullAttrLists == {<<>>, <<"a">>, <<"a", "b">>, <<"a", "a">>}
PathAttrLists == {<<>>, <<"b">>}

PullLevelPlans ==
    {PullLevel(p, pa, pth) : p \in PullInputs, pa \in PullAttrLists, pth \in PathAttrLists}

PullPaths ==
    {PullLevel(RuleExpr(<<"x">>, "a"), <<"a">>, <<>>),
     PullLevel(RuleExpr(<<"x">>, "a"), <<"b">>, <<>>)}

PullPlans == {Pull(paths) : paths \in SeqsUpTo(PullPaths, MaxPaths)}

Plans == LeafPlans \cup NegatePlans \cup PullLevelPlans \cup PullPlans

----------------------------------------------------------------------------
\* Plan::dependencies (mod.rs), PullLevel::dependencies, Pull::dependencies (pull.rs)

RECURSIVE dependencies(_)
dependencies(p) ==
    CASE p.kind = "Negate" -> dependencies(p.plan)
      [] p.kind \in {"MatchA", "MatchEA", "MatchAV"} -> <<>>
      [] p.kind \in {"RuleExpr", "NameExpr"} -> <<p.name>>
      [] p.kind = "Pull" -> <<>>
      [] p.kind = "PullLevel" -> <<>>

----------------------------------------------------------------------------
\* Plan::implement at compile time: which names are looked up, whether a lookup
\* panics, and the symbols of the relation returned.  A lookup is <<registry, name>>.

Compiled(syms, looked) == [ok |-> TRUE, symbols |-> syms, lookups |-> looked]
Panicked(looked) == [ok |-> FALSE, symbols |-> <<>>, lookups |-> looked]

LookupGlobal(name, syms) ==
    IF name \in global_arrangements
    THEN Compiled(syms, <<<<"global", name>>>>)
    ELSE Panicked(<<<<"global", name>>>>)

\* Mutant: a name absent from the local map is taken from the global registry.
LookupLocalThenGlobal(name, syms) ==
    IF name \in local_arrangements \cup global_arrangements
    THEN Compiled(syms, <<<<"local", name>>>>)
    ELSE Panicked(<<<<"local", name>>>>)

LookupLocal(name, syms) ==
    IF name \in local_arrangements
    THEN Compiled(syms, <<<<"local", name>>>>)
    ELSE Panicked(<<<<"local", name>>>>)

\* self.pull_attributes.iter().map(|a| match context.forward_index(a) ...),
\* consumed in order by concatenate; the first absent index panics.
RECURSIVE LookupForward(_, _, _)
LookupForward(attrs, i, looked) ==
    IF i > Len(attrs) THEN Compiled(<<>>, looked)
    ELSE IF attrs[i] \in forward_indices
         THEN LookupForward(attrs, i + 1, Append(looked, <<"forward", attrs[i]>>))
         ELSE Panicked(Append(looked, <<"forward", attrs[i]>>))

RECURSIVE Implement(_)
RECURSIVE ImplementPaths(_, _, _)

\* Mutant: the relabelling branch keeps the symbols of its input.
PullLevelImplementKeepsSymbols(p) ==
    LET input == Implement(p.plan)
    IN  IF ~input.ok THEN input
        ELSE IF p.pull_attributes = <<>>
             THEN input
             ELSE LookupForward(p.pull_attributes, 1, input.lookups)

PullLevelImplement(p) ==
    LET input == Implement(p.plan)
    IN  IF ~input.ok THEN input
        ELSE IF p.pull_attributes = <<>>
             THEN IF p.path_attributes = <<>>
                  THEN input
                  ELSE Compiled(<<>>, input.lookups)
             ELSE LookupForward(p.pull_attributes, 1, input.lookups)

\* self.paths.iter().map(|path| path.implement(...)), consumed in order.
ImplementPaths(paths, i, looked) ==
    IF i > Len(paths) THEN Compiled(<<>>, looked)
    ELSE LET r == PullLevelImplement(paths[i])
         IN  IF r.ok THEN ImplementPaths(paths, i + 1, looked \o r.lookups)
             ELSE Panicked(looked \o r.lookups)

PullImplement(p) == ImplementPaths(p.paths, 1, <<>>)

Implement(p) ==
    CASE p.kind = "Negate" -> Implement(p.plan)
      [] p.kind = "MatchA" -> LookupGlobal(p.a, <<p.sym1, p.sym2>>)
      [] p.kind = "MatchEA" -> LookupGlobal(p.a, <<p.sym1>>)
      [] p.kind = "MatchAV" -> LookupGlobal(p.a, <<p.sym1>>)
      [] p.kind = "RuleExpr" -> LookupLocal(p.name, p.syms)
      [] p.kind = "NameExpr" -> LookupGlobal(p.name, p.syms)
      [] p.kind = "Pull" -> PullImplement(p)
      [] p.kind = "PullLevel" -> PullLevelImplement(p)

Range(s) == {s[i] : i \in 1..Len(s)}

----------------------------------------------------------------------------
\* The compiled dataflow: the tuples of the relation implement() returned, as a
\* function of the accumulated contents `in` of the imported sources.  crashed =
\* TRUE when an operator closure panics on one of the tuples it is invoked on.

Flowing(c) == [crashed |-> FALSE, tuples |-> c]
Crashed == [crashed |-> TRUE, tuples |-> EmptyCollection]

\* .as_collection(|tuple, _| tuple.clone())
MatchATuples(p, in) == Flowing(in[<<"global", p.a>>])

\* Mutant: the entity column is kept.
MatchEAKeepsEntity(p, in) ==
    LET base == in[<<"global", p.a>>]
        keep(t) == t[1] = Eid(p.e)
    IN  IF \E t \in DOMAIN base : Len(t) < 1 \/ (keep(t) /\ Len(t) < 2)
        THEN Crashed
        ELSE Flowing(FilterCollection(base, {t \in DOMAIN base : keep(t)}))

\* .filter(move |tuple| tuple[0] == Value::Eid(e)).map(|tuple| vec![tuple[1].clone()])
MatchEATuples(p, in) ==
    LET base == in[<<"global", p.a>>]
        keep(t) == t[1] = Eid(p.e)
        kept == FilterCollection(base, {t \in DOMAIN base : keep(t)})
    IN  IF \E t \in DOMAIN base : Len(t) < 1 \/ (keep(t) /\ Len(t) < 2)
        THEN Crashed
        ELSE Flowing(MapCollection(kept, [t \in DOMAIN kept |-> <<t[2]>>]))

\* Mutant: the entity column is projected away instead of the value column.
MatchAVDropsEntity(p, in) ==
    LET base == in[<<"global", p.a>>]
        keep(t) == t[2] = p.v
        kept == FilterCollection(base, {t \in DOMAIN base : keep(t)})
    IN  IF \E t \in DOMAIN base : Len(t) < 2
        THEN Crashed
        ELSE Flowing(MapCollection(kept, [t \in DOMAIN kept |-> <<t[2]>>]))

\* .filter(move |tuple| tuple[1] == v).map(|tuple| vec![tuple[0].clone()])
MatchAVTuples(p, in) ==
    LET base == in[<<"global", p.a>>]
        keep(t) == t[2] = p.v
        kept == FilterCollection(base, {t \in DOMAIN base : keep(t)})
    IN  IF \E t \in DOMAIN base : Len(t) < 2
        THEN Crashed
        ELSE Flowing(MapCollection(kept, [t \in DOMAIN kept |-> <<t[1]>>]))

\* named.map(|tuple| tuple.clone())
RuleExprTuples(p, in) == Flowing(in[<<"local", p.name>>])

NameExprTuples(p, in) == Flowing(in[<<"global", p.name>>])

\* Mutant: a tuple interleave cannot label is dropped instead of panicking.
RelabelTuplesSkipping(input, path_attributes) ==
    LET kept == FilterCollection(input, {t \in DOMAIN input :
                                            interleave(t, path_attributes).ok})
    IN  Flowing(MapCollection(kept, [t \in DOMAIN kept |->
                                        interleave(t, path_attributes).result]))

\* input.tuples().map(move |tuple| interleave(&tuple, &path_attributes))
RelabelTuples(input, path_attributes) ==
    IF \E t \in DOMAIN input : ~interleave(t, path_attributes).ok
    THEN Crashed
    ELSE Flowing(MapCollection(input, [t \in DOMAIN input |->
                                          interleave(t, path_attributes).result]))

\* Mutant: the paths are keyed by their first element instead of their last.
JoinCoreByFirst(paths, e_v, a, path_attributes) ==
    LET matches == {<<p, ev>> \in (DOMAIN paths) \X (DOMAIN e_v) : p[1] = ev[1]}
        row == [m \in matches |->
                   interleave(m[1], path_attributes).result \o <<Aid(a), m[2][2]>>]
        product == [m \in matches |-> paths[m[1]] * e_v[m[2]]]
    IN  IF \E m \in matches : ~interleave(m[1], path_attributes).ok
        THEN Crashed
        ELSE Flowing(MapCollection(product, row))

\* e_path.join_core(&e_v, |_e, path, v| { interleave(path, ..) ++ [attribute, v] })
\* e_path is keyed by t.last(); e_v holds <<e, v>>.
JoinCore(paths, e_v, a, path_attributes) ==
    LET keys == {p[Len(p)] : p \in DOMAIN paths} \cap {ev[1] : ev \in DOMAIN e_v}
        matches == {<<p, ev>> \in (DOMAIN paths) \X (DOMAIN e_v) :
                        ev[1] \in keys /\ p[Len(p)] = ev[1]}
        row == [m \in matches |->
                   interleave(m[1], path_attributes).result \o <<Aid(a), m[2][2]>>]
        product == [m \in matches |-> paths[m[1]] * e_v[m[2]]]
    IN  IF \E m \in matches : ~interleave(m[1], path_attributes).ok
        THEN Crashed
        ELSE Flowing(MapCollection(product, row))

\* nested.concatenate(streams) over self.pull_attributes, in order
RECURSIVE PullStreams(_, _, _, _, _)
PullStreams(paths, attrs, path_attributes, in, i) ==
    IF i > Len(attrs) THEN Flowing(EmptyCollection)
    ELSE LET stream == JoinCore(paths, in[<<"forward", attrs[i]>>], attrs[i], path_attributes)
             rest == PullStreams(paths, attrs, path_attributes, in, i + 1)
         IN  IF stream.crashed \/ rest.crashed THEN Crashed
             ELSE Flowing(Concat(stream.tuples, rest.tuples))

RECURSIVE Tuples(_, _)
RECURSIVE PathStreams(_, _, _)

PullLevelTuples(p, in) ==
    LET input == Tuples(p.plan, in)
    IN  IF input.crashed THEN Crashed
        ELSE IF p.pull_attributes = <<>>
             THEN IF p.path_attributes = <<>>
                  THEN input
                  ELSE RelabelTuples(input.tuples, p.path_attributes)
             ELSE \* paths.map(|t| (t.last().unwrap().clone(), t)).arrange()
                  IF <<>> \in DOMAIN input.tuples THEN Crashed
                  ELSE PullStreams(input.tuples, p.pull_attributes, p.path_attributes, in, 1)

\* Mutant: a tuple two paths produce is kept once.
PathStreamsDistinct(paths, in, i) ==
    IF i > Len(paths) THEN Flowing(EmptyCollection)
    ELSE LET stream == PullLevelTuples(paths[i], in)
             rest == PathStreams(paths, in, i + 1)
         IN  IF stream.crashed \/ rest.crashed THEN Crashed
             ELSE Flowing([t \in DOMAIN stream.tuples \cup DOMAIN rest.tuples |->
                             IF t \in DOMAIN rest.tuples THEN rest.tuples[t]
                             ELSE stream.tuples[t]])

\* nested.concatenate(streams) over self.paths, in order
PathStreams(paths, in, i) ==
    IF i > Len(paths) THEN Flowing(EmptyCollection)
    ELSE LET stream == PullLevelTuples(paths[i], in)
             rest == PathStreams(paths, in, i + 1)
         IN  IF stream.crashed \/ rest.crashed THEN Crashed
             ELSE Flowing(Concat(stream.tuples, rest.tuples))

PullTuples(p, in) == PathStreams(p.paths, in, 1)

\* rel.tuples().negate()
NegateTuples(p, in) ==
    LET rel == Tuples(p.plan, in)
    IN  IF rel.crashed THEN Crashed ELSE Flowing(Negated(rel.tuples))

Tuples(p, in) ==
    CASE p.kind = "Negate" -> NegateTuples(p, in)
      [] p.kind = "MatchA" -> MatchATuples(p, in)
      [] p.kind = "MatchEA" -> MatchEATuples(p, in)
      [] p.kind = "MatchAV" -> MatchAVTuples(p, in)
      [] p.kind = "RuleExpr" -> RuleExprTuples(p, in)
      [] p.kind = "NameExpr" -> NameExprTuples(p, in)
      [] p.kind = "Pull" -> PullTuples(p, in)
      [] p.kind = "PullLevel" -> PullLevelTuples(p, in)

----------------------------------------------------------------------------
\* State machine

NotCalled == [called |-> FALSE, ok |-> TRUE, result |-> <<>>]

Init ==
    /\ plan \in Plans
    /\ local_arrangements \in SUBSET LocalNames
    /\ global_arrangements \in SUBSET GlobalNames
    /\ forward_indices \in SUBSET Attributes
    /\ pc = "start"
    /\ symbols = <<>>
    /\ lookups = <<>>
    /\ inputs = EmptyCollection
    /\ tuples = EmptyCollection
    /\ delivered = 0
    /\ iv_values = <<>>
    /\ iv_constants = <<>>
    /\ iv_result = NotCalled

\* plan.implement(nested, local_arrangements, context) returns a relation
ImplementReturns ==
    /\ pc = "start"
    /\ LET r == Implement(plan)
       IN  /\ r.ok
           /\ pc' = "compiled"
           /\ symbols' = r.symbols
           /\ lookups' = r.lookups
           /\ inputs' = [s \in Range(r.lookups) |-> EmptyCollection]
    /\ UNCHANGED <<plan, local_arrangements, global_arrangements, forward_indices,
                   tuples, delivered, iv_values, iv_constants, iv_result>>

\* plan.implement(nested, local_arrangements, context) panics on a lookup
ImplementPanics ==
    /\ pc = "start"
    /\ LET r == Implement(plan)
       IN  /\ ~r.ok
           /\ pc' = "failed"
           /\ lookups' = r.lookups
    /\ UNCHANGED <<plan, local_arrangements, global_arrangements, forward_indices,
                   symbols, inputs, tuples, delivered, iv_values, iv_constants, iv_result>>

SourceUniverse(src) == IF src[1] = "forward" THEN IndexUniverse ELSE TupleUniverse

\* One update (t, diff) arrives on an imported source and flows through the
\* compiled operators.
Deliver ==
    /\ pc = "compiled"
    /\ delivered < MaxDeliveries
    /\ \E src \in DOMAIN inputs :
         \E t \in SourceUniverse(src), diff \in Diffs :
            \* a retraction retracts a tuple the source holds
            /\ diff < 0 => Mult(inputs[src], t) > 0
            /\ LET in == [inputs EXCEPT ![src] = Update(@, t, diff)]
                   r == Tuples(plan, in)
               IN  /\ inputs' = in
                   /\ IF r.crashed
                      THEN pc' = "crashed" /\ tuples' = tuples
                      ELSE pc' = pc /\ tuples' = r.tuples
    /\ delivered' = delivered + 1
    /\ UNCHANGED <<plan, local_arrangements, global_arrangements, forward_indices,
                   symbols, lookups, iv_values, iv_constants, iv_result>>

Next == ImplementReturns \/ ImplementPanics \/ Deliver

Spec == Init /\ [][Next]_vars

----------------------------------------------------------------------------
\* interleave as a function of its two arguments

InitInterleave ==
    /\ plan = Pull(<<>>)
    /\ local_arrangements = {}
    /\ global_arrangements = {}
    /\ forward_indices = {}
    /\ pc = "start"
    /\ symbols = <<>>
    /\ lookups = <<>>
    /\ inputs = EmptyCollection
    /\ tuples = EmptyCollection
    /\ delivered = 0
    /\ iv_values \in SeqsUpTo(ValueDomain, MaxValues)
    /\ iv_constants \in SeqsUpTo(Attributes, MaxConstants)
    /\ iv_result = NotCalled

CallInterleave ==
    /\ ~iv_result.called
    /\ LET r == interleave(iv_values, iv_constants)
       IN  iv_result' = [called |-> TRUE, ok |-> r.ok,
                         result |-> IF r.ok THEN r.result ELSE <<>>]
    /\ UNCHANGED <<plan, local_arrangements, global_arrangements, forward_indices, pc,
                   symbols, lookups, inputs, tuples, delivered, iv_values, iv_constants>>

NextInterleave == CallInterleave

SpecInterleave == InitInterleave /\ [][NextInterleave]_vars

----------------------------------------------------------------------------
\* Properties

\* The lookups a plan tree needs: RuleExpr its name in the local map; NameExpr
\* and the attribute patterns their name as a global arrangement; PullLevel the
\* forward index of every attribute it pulls.
RECURSIVE Requires(_)
Requires(p) ==
    CASE p.kind = "Negate" -> Requires(p.plan)
      [] p.kind \in {"MatchA", "MatchEA", "MatchAV"} -> {<<"global", p.a>>}
      [] p.kind = "RuleExpr" -> {<<"local", p.name>>}
      [] p.kind = "NameExpr" -> {<<"global", p.name>>}
      [] p.kind = "PullLevel" ->
            Requires(p.plan) \cup {<<"forward", p.pull_attributes[i]>> :
                                      i \in 1..Len(p.pull_attributes)}
      [] p.kind = "Pull" -> UNION {Requires(p.paths[i]) : i \in 1..Len(p.paths)}

Registered(l) ==
    CASE l[1] = "local" -> l[2] \in local_arrangements
      [] l[1] = "global" -> l[2] \in global_arrangements
      [] l[1] = "forward" -> l[2] \in forward_indices

Returned == pc \in {"compiled", "crashed"}

\* C1: dependencies() lists exactly the local/global relation names implement()
\* needs: with every name of dependencies() resolvable and every attribute
\* registered, implement() returns a relation, and implement() looks up no
\* name in the local map that dependencies() does not list.
C1_DependenciesExact ==
    LET deps == Range(dependencies(plan))
    IN  pc # "start" =>
          /\ \A l \in Range(lookups) : l[1] = "local" => l[2] \in deps
          /\ ( /\ deps \subseteq local_arrangements
               /\ deps \subseteq global_arrangements
               /\ global_arrangements = GlobalNames
               /\ forward_indices = Attributes ) => pc # "failed"

\* C2: name resolution is fatal in the registry the plan variant fixes: a
\* relation is returned only if every lookup the tree needs is registered in
\* its own registry, whatever the other registries hold; after a failure no
\* relation exists (no symbols, no imported source, no tuple delivered).
C2_ResolutionFatal ==
    /\ Returned => \A l \in Requires(plan) : Registered(l)
    /\ (pc # "start" /\ \E l \in Requires(plan) : ~Registered(l)) => pc = "failed"
    /\ pc = "failed" => symbols = <<>> /\ DOMAIN inputs = {} /\ delivered = 0
                        /\ tuples = EmptyCollection

\* C2 witness: RuleExpr("a") failed although "a" is a registered global
\* arrangement.
C2_Witness ==
    /\ pc = "failed"
    /\ plan.kind = "RuleExpr"
    /\ plan.name \in global_arrangements
    /\ plan.name \notin local_arrangements

RECURSIVE SumOver(_, _)
SumOver(f, S) ==
    IF S = {} THEN 0
    ELSE LET x == CHOOSE y \in S : TRUE
         IN  f[x] + SumOver(f, S \ {x})

\* The PullLevel nodes of the plan that pull at least one attribute.
PullingNodes ==
    IF plan.kind = "PullLevel" THEN {q \in {plan} : q.pull_attributes # <<>>}
    ELSE IF plan.kind = "Pull"
         THEN {plan.paths[i] : i \in {j \in 1..Len(plan.paths) :
                                         plan.paths[j].pull_attributes # <<>>}}
         ELSE {}

\* The output of node q as the state holds it.
OutputOf(q) == IF q = plan THEN tuples ELSE Tuples(q, inputs).tuples

\* <<i, p, ev>>: the i-th pulled attribute, an input path p and an entry ev =
\* <<e, v>> of that attribute's forward index with e the last element of p.
PullTriples(q) ==
    LET input == Tuples(q.plan, inputs).tuples
    IN  UNION {{<<i, p, ev>> : p \in {x \in DOMAIN input : Len(x) > 0},
                               ev \in DOMAIN inputs[<<"forward", q.pull_attributes[i]>>]} :
               i \in 1..Len(q.pull_attributes)}

PullMatches(q) == {t \in PullTriples(q) : t[2][Len(t[2])] = t[3][1]}

PullRow(q, t) ==
    interleave(t[2], q.path_attributes).result \o <<Aid(q.pull_attributes[t[1]]), t[3][2]>>

PullWeight(q) ==
    LET input == Tuples(q.plan, inputs).tuples
    IN  [t \in PullMatches(q) |->
            input[t[2]] * inputs[<<"forward", q.pull_attributes[t[1]]>>][t[3]]]

\* C3: a PullLevel with pull attributes outputs, for every occurrence of an
\* attribute a in pull_attributes, every input path p (multiplicity m) and every
\* entry (e, v) of a's forward index (multiplicity n) with e the last element of
\* p, the row interleave(p, path_attributes) ++ [Aid(a), v] with multiplicity
\* m * n, summed per row, and nothing else.
C3_PullLevelMultiset ==
    pc = "compiled" =>
      \A q \in PullingNodes :
         LET rows == {PullRow(q, t) : t \in PullMatches(q)}
             out == OutputOf(q)
         IN  /\ DOMAIN out \subseteq rows
             /\ \A r \in rows :
                  Mult(out, r) =
                     SumOver(PullWeight(q), {t \in PullMatches(q) : PullRow(q, t) = r})

\* C3 witness: a two-column path labelled with a path attribute and held twice
\* meets one index entry: one five-column row of multiplicity 2.
C3_Witness ==
    /\ pc = "compiled"
    /\ plan.kind = "PullLevel"
    /\ plan.pull_attributes # <<>>
    /\ plan.path_attributes # <<>>
    /\ \E r \in DOMAIN tuples : Len(r) = 5 /\ tuples[r] = 2

InterleavePrecondition ==
    Len(iv_values) - Len(iv_constants) \in {0, 1}

\* C4: where either sequence is empty or len(values) - len(constants) is 0 or 1,
\* interleave returns: values unchanged if either is empty; otherwise a
\* sequence of length len(values) + len(constants) with values at the even
\* positions 0, 2, ... and the constants, as Aid values, at the odd positions.
C4_InterleaveResult ==
    (iv_result.called /\ (iv_values = <<>> \/ iv_constants = <<>> \/ InterleavePrecondition)) =>
       /\ iv_result.ok
       /\ IF iv_values = <<>> \/ iv_constants = <<>>
          THEN iv_result.result = iv_values
          ELSE /\ Len(iv_result.result) = Len(iv_values) + Len(iv_constants)
               /\ \A k \in 0..(Len(iv_values) - 1) :
                     iv_result.result[2 * k + 1] = iv_values[k + 1]
               /\ \A k \in 0..(Len(iv_constants) - 1) :
                     iv_result.result[2 * k + 2] = Aid(iv_constants[k + 1])

\* C4 witness: two values interleaved with two constants.
C4_Witness ==
    /\ iv_result.called
    /\ Len(iv_values) = 2
    /\ Len(iv_constants) = 2
    /\ Len(iv_result.result) = 4

\* C9 as claimed: interleave aborts exactly when len(values) is neither
\* len(constants) nor len(constants) + 1, also when one sequence is empty.
C9_AbortsOffPrecondition ==
    iv_result.called => (iv_result.ok <=> InterleavePrecondition)

\* C9 as amended: interleave aborts exactly when both sequences are non-empty
\* and len(values) is neither len(constants) nor len(constants) + 1; with an
\* empty sequence it returns values whatever the lengths.
C9_AbortsWhenBothNonEmpty ==
    iv_result.called =>
       (iv_result.ok <=>
           (iv_values = <<>> \/ iv_constants = <<>> \/ InterleavePrecondition))

\* C9 witness: a call that aborted.
C9_Witness ==
    /\ iv_result.called
    /\ ~iv_result.ok
    /\ iv_values # <<>>
    /\ iv_constants # <<>>

Pairs == ValueDomain \X ValueDomain

\* The base relation an attribute pattern reads.
Base == inputs[<<"global", plan.a>>]

\* C5: over a base relation of [e, v] pairs, for every entity e0 and value V the
\* multiplicity of [e0] in MatchAV(?e, a, V), of [V] in MatchEA(e0, a, ?v) and
\* of [Eid(e0), V] in the base are equal; MatchEA keeps the rows whose entity is
\* e0 and drops the entity, MatchAV keeps the rows whose value is V and drops
\* the value, MatchA passes every row through.
C5_InverseProjections ==
    (pc = "compiled" /\ plan.kind \in {"MatchA", "MatchEA", "MatchAV"}
        /\ DOMAIN Base \subseteq Pairs) =>
       /\ \A e0 \in {1, 2}, V \in ValueDomain :
             LET av == Tuples(MatchAV("x", plan.a, V), inputs).tuples
                 ea == Tuples(MatchEA(e0, plan.a, "y"), inputs).tuples
             IN  /\ Mult(av, <<Eid(e0)>>) = Mult(Base, <<Eid(e0), V>>)
                 /\ Mult(ea, <<V>>) = Mult(Base, <<Eid(e0), V>>)
       /\ plan.kind = "MatchEA" =>
             /\ \A t \in DOMAIN tuples : Len(t) = 1
             /\ \A V \in ValueDomain : Mult(tuples, <<V>>) = Mult(Base, <<Eid(plan.e), V>>)
       /\ plan.kind = "MatchAV" =>
             /\ \A t \in DOMAIN tuples : Len(t) = 1
             /\ \A e \in ValueDomain : Mult(tuples, <<e>>) = Mult(Base, <<e, plan.v>>)
       /\ plan.kind = "MatchA" => tuples = Base

\* C5 witness: MatchEA over a base holding a row of its entity twice and a row
\* of another entity.
C5_Witness ==
    /\ pc = "compiled"
    /\ plan.kind = "MatchEA"
    /\ DOMAIN Base \subseteq Pairs
    /\ \E t \in DOMAIN Base : t[1] # Eid(plan.e)
    /\ \E t \in DOMAIN tuples : tuples[t] = 2

\* The sum over the paths of a Pull of the multiplicity of row r in each.
RECURSIVE SumOfPaths(_, _, _)
SumOfPaths(paths, r, i) ==
    IF i > Len(paths) THEN 0
    ELSE Mult(Tuples(paths[i], inputs).tuples, r) + SumOfPaths(paths, r, i + 1)

Reversed(s) == [i \in 1..Len(s) |-> s[Len(s) + 1 - i]]

\* C6: the multiplicity of every tuple in the output of a Pull is the sum, over
\* its paths, of the tuple's multiplicity in the path's own output, whatever
\* the order of the paths; a Pull without paths outputs nothing.
C6_PullConcatenates ==
    (pc = "compiled" /\ plan.kind = "Pull") =>
       LET rows == DOMAIN tuples \cup
                   UNION {DOMAIN Tuples(plan.paths[i], inputs).tuples :
                             i \in 1..Len(plan.paths)}
       IN  /\ \A r \in rows : Mult(tuples, r) = SumOfPaths(plan.paths, r, 1)
           /\ Tuples(Pull(Reversed(plan.paths)), inputs).tuples = tuples
           /\ plan.paths = <<>> => tuples = EmptyCollection

\* C6 witness: two equal paths each output the same row once, and the Pull
\* holds it twice.
C6_Witness ==
    /\ pc = "compiled"
    /\ plan.kind = "Pull"
    /\ Len(plan.paths) = 2
    /\ plan.paths[1] = plan.paths[2]
    /\ \E r \in DOMAIN tuples :
          tuples[r] = 2 /\ Mult(Tuples(plan.paths[1], inputs).tuples, r) = 1

\* The leaf under any Negate.
RECURSIVE LeafOf(_)
LeafOf(p) == IF p.kind = "Negate" THEN LeafOf(p.plan) ELSE p

\* The symbols a leaf declares, and the relation it reads.
DeclaredSymbols(leaf) ==
    CASE leaf.kind = "MatchA" -> <<leaf.sym1, leaf.sym2>>
      [] leaf.kind \in {"MatchEA", "MatchAV"} -> <<leaf.sym1>>
      [] leaf.kind \in {"RuleExpr", "NameExpr"} -> leaf.syms

StoredTuples(leaf) ==
    CASE leaf.kind \in {"MatchA", "MatchEA", "MatchAV"} -> DOMAIN inputs[<<"global", leaf.a>>]
      [] leaf.kind = "RuleExpr" -> DOMAIN inputs[<<"local", leaf.name>>]
      [] leaf.kind = "NameExpr" -> DOMAIN inputs[<<"global", leaf.name>>]

IsPull == plan.kind \in {"Pull", "PullLevel"}

ArityHolds == \A t \in DOMAIN tuples : Len(t) = Len(symbols)

\* C7 as claimed: every tuple of a relation returned by a node other than a
\* pull has as many columns as the relation has symbols, also when RuleExpr or
\* NameExpr is given a variable list of another length than the tuples.
C7_ArityInvariant ==
    (pc = "compiled" /\ ~IsPull) => ArityHolds

\* C7 as amended: MatchEA and MatchAV (also under Negate) return one-column
\* tuples under one symbol; MatchA, RuleExpr and NameExpr (also under Negate)
\* return the stored tuples unchanged under the symbols given, so their tuples
\* have as many columns as symbols exactly when the stored tuples do.
C7_ArityWhereStoredTuplesFit ==
    (pc = "compiled" /\ ~IsPull) =>
       LET leaf == LeafOf(plan)
       IN  /\ symbols = DeclaredSymbols(leaf)
           /\ IF leaf.kind \in {"MatchEA", "MatchAV"}
              THEN Len(symbols) = 1 /\ ArityHolds
              ELSE /\ DOMAIN tuples = StoredTuples(leaf)
                   /\ ArityHolds <=> \A t \in StoredTuples(leaf) : Len(t) = Len(symbols)

\* C7 witness: Negate over a RuleExpr with two variables whose relation holds a
\* two-column tuple.
C7_Witness ==
    /\ pc = "compiled"
    /\ plan.kind = "Negate"
    /\ plan.plan.kind = "RuleExpr"
    /\ Len(symbols) = 2
    /\ tuples # EmptyCollection
    /\ ArityHolds

\* C8 as claimed: the symbols of every relation PullLevel or Pull returns are
\* empty, also when both attribute lists are empty.
C8_PullSymbolsUnset ==
    (Returned /\ IsPull) => symbols = <<>>

\* C8 as amended: the symbols are empty for every Pull and for every PullLevel
\* with a non-empty pull_attributes or path_attributes; a PullLevel with both
\* lists empty returns the relation of its inner plan, with that plan's symbols.
C8_PullSymbolsUnsetUnlessPassThrough ==
    (Returned /\ IsPull) =>
       IF plan.kind = "PullLevel" /\ plan.pull_attributes = <<>> /\ plan.path_attributes = <<>>
       THEN symbols = DeclaredSymbols(LeafOf(plan.plan))
       ELSE symbols = <<>>

\* C8 witness: a PullLevel with both lists empty returned its input's symbols.
C8_Witness ==
    /\ pc = "compiled"
    /\ plan.kind = "PullLevel"
    /\ plan.pull_attributes = <<>>
    /\ plan.path_attributes = <<>>
    /\ symbols = <<"x">>

\* A tuple some operator of p panics on, given the contents of the sources.
RECURSIVE ShapeDefect(_)
ShapeDefect(p) ==
    CASE p.kind \in {"MatchA", "RuleExpr", "NameExpr"} -> FALSE
      [] p.kind = "MatchEA" ->
            \E t \in DOMAIN inputs[<<"global", p.a>>] :
               Len(t) = 0 \/ (Len(t) = 1 /\ t[1] = Eid(p.e))
      [] p.kind = "MatchAV" -> \E t \in DOMAIN inputs[<<"global", p.a>>] : Len(t) < 2
      [] p.kind = "Negate" -> ShapeDefect(p.plan)
      [] p.kind = "Pull" -> \E i \in 1..Len(p.paths) : ShapeDefect(p.paths[i])
      [] p.kind = "PullLevel" ->
            \/ ShapeDefect(p.plan)
            \/ LET input == DOMAIN Tuples(p.plan, inputs).tuples
                   misfit(t) == /\ t # <<>>
                                /\ p.path_attributes # <<>>
                                /\ Len(t) - Len(p.path_attributes) \notin {0, 1}
               IN  IF p.pull_attributes = <<>>
                   THEN \E t \in input : misfit(t)
                   ELSE \/ <<>> \in input
                        \/ \E t \in input, i \in 1..Len(p.pull_attributes) :
                              /\ misfit(t)
                              /\ \E ev \in DOMAIN inputs[<<"forward", p.pull_attributes[i]>>] :
                                    ev[1] = t[Len(t)]

\* C10 as claimed: once implement() has returned a relation, no delivery of a
\* tuple to the compiled dataflow aborts.
C10_NoAbortAfterCompile == pc # "crashed"

\* C10 as amended: every unresolved-name failure happens in implement(), before
\* any tuple is delivered, and implement() fails for no other reason; after it
\* returned no name is looked up any more.  A delivered tuple still aborts
\* the dataflow, exactly when an operator indexes past its end: MatchEA on a
\* tuple without columns or on a one-column tuple of its entity, MatchAV on a
\* tuple of fewer than two columns, a pulling PullLevel on an empty path, and
\* interleave on a non-empty path (relabelled, or joined with an index entry)
\* whose length is neither len(path_attributes) nor one more, path_attributes
\* being non-empty.
C10_NameFailuresAtCompileShapeFailuresAtRuntime ==
    /\ pc = "failed" => delivered = 0 /\ \E l \in Requires(plan) : ~Registered(l)
    /\ Returned => Range(lookups) = Requires(plan) /\ \A l \in Requires(plan) : Registered(l)
    /\ pc = "crashed" => delivered >= 1 /\ ShapeDefect(plan)
    /\ pc = "compiled" => ~ShapeDefect(plan)

\* C10 witness: a PullLevel crashed in interleave on a three-column path.
C10_Witness ==
    /\ pc = "crashed"
    /\ plan.kind = "PullLevel"
    /\ plan.path_attributes # <<>>
    /\ inputs[<<"local", "a">>] # EmptyCollection
    /\ \A t \in DOMAIN inputs[<<"local", "a">>] : Len(t) = 3

====
